---- MODULE Spec2Model ----
(***************************************************************************)
(* Model of src/src/server.js (the service with the blog store, lines      *)
(* 100-399): the start-up of the process, the token routes, the            *)
(* verifyToken gate, the write pipeline of POST /blogs, the two read       *)
(* routes and the slug normalizer.                                         *)
(*                                                                         *)
(* A JavaScript string is a sequence of one-character strings; undefined   *)
(* is the one-element sequence Undefined, which is no character sequence.  *)
(* The clock is Date.now() in milliseconds, counted from the model's       *)
(* reference instant.                                                      *)
(***************************************************************************)
EXTENDS Integers, Sequences, FiniteSets, TLC

VARIABLES clock, issued, store, reqs, last, errlog, healthy, proc

vars == <<clock, issued, store, reqs, last, errlog, healthy, proc>>

\* ------------------------------------------------------------ strings

Undefined == <<"#undefined">>

\* null, which like undefined is no character sequence
Null == <<"#null">>

Rep(c, n) == [i \in 1..n |-> c]

LowerAlpha ==
  {"a","b","c","d","e","f","g","h","i","j","k","l","m",
   "n","o","p","q","r","s","t","u","v","w","x","y","z"}

Digits == {"0","1","2","3","4","5","6","7","8","9"}

\* \s of a JavaScript regular expression, as far as the inputs use it
WhiteSpace == {" ", "\t", "\n"}

\* String.prototype.toLowerCase on one character
UpperCase ==
  <<"A","B","C","D","E","F","G","H","I","J","K","L","M",
    "N","O","P","Q","R","S","T","U","V","W","X","Y","Z">>

LowerCase ==
  <<"a","b","c","d","e","f","g","h","i","j","k","l","m",
    "n","o","p","q","r","s","t","u","v","w","x","y","z">>

LowerChar(c) ==
  IF \E i \in 1..26 : UpperCase[i] = c
    THEN LowerCase[CHOOSE i \in 1..26 : UpperCase[i] = c]
    ELSE c

toLowerCase(s) == [i \in 1..Len(s) |-> LowerChar(s[i])]

RECURSIVE TrimStart(_)
TrimStart(s) ==
  IF s # <<>> /\ Head(s) \in WhiteSpace THEN TrimStart(Tail(s)) ELSE s

RECURSIVE TrimEnd(_)
TrimEnd(s) ==
  IF s # <<>> /\ s[Len(s)] \in WhiteSpace
    THEN TrimEnd(SubSeq(s, 1, Len(s) - 1)) ELSE s

\* String.prototype.trim
trim(s) == TrimEnd(TrimStart(s))

\* .replace(/[^a-z0-9\s-]/g, '')
StripOther(s) ==
  SelectSeq(s, LAMBDA c : c \in LowerAlpha \cup Digits \cup WhiteSpace \cup {"-"})

\* each character of s paired with the character in front of it
WithPrevious(s) == [i \in 1..Len(s) |-> <<s[i], IF i = 1 THEN "" ELSE s[i - 1]>>]

\* .replace(/\s+/g, '-'): each maximal run of white space becomes one hyphen
SpacesToHyphen(s) ==
  LET kept == SelectSeq(WithPrevious(s),
                        LAMBDA p : ~(p[1] \in WhiteSpace /\ p[2] \in WhiteSpace))
  IN  [i \in 1..Len(kept) |-> IF kept[i][1] \in WhiteSpace THEN "-" ELSE kept[i][1]]

\* .replace(/-+/g, '-')
CollapseHyphens(s) ==
  LET kept == SelectSeq(WithPrevious(s), LAMBDA p : ~(p[1] = "-" /\ p[2] = "-"))
  IN  [i \in 1..Len(kept) |-> kept[i][1]]

\* mutant: only the leading hyphen is removed
TrimHyphensLeading(s) == IF s # <<>> /\ Head(s) = "-" THEN Tail(s) ELSE s

\* .replace(/^-|-$/g, ''): one leading and one trailing hyphen are removed
TrimHyphens(s) ==
  LET a == IF s # <<>> /\ Head(s) = "-" THEN Tail(s) ELSE s
  IN  IF a # <<>> /\ a[Len(a)] = "-" THEN SubSeq(a, 1, Len(a) - 1) ELSE a

sanitizeSlug(value) ==
  TrimHyphens(CollapseHyphens(SpacesToHyphen(StripOther(trim(toLowerCase(value))))))

\* /^[a-z0-9]+(?:-[a-z0-9]+)*$/
SlugRegex(s) ==
  /\ s # <<>>
  /\ \A i \in 1..Len(s) : s[i] \in LowerAlpha \cup Digits \cup {"-"}
  /\ s[1] # "-" /\ s[Len(s)] # "-"
  /\ \A i \in 1..(Len(s) - 1) : ~(s[i] = "-" /\ s[i + 1] = "-")

\* ------------------------------------------------------- configuration

ADMIN_SECRET_KEY == "admin-passphrase"

AUTH_TOKEN_SECRET == "signing-secret"

\* TOKEN_EXPIRY '30m', in the seconds jsonwebtoken adds to iat
TOKEN_EXPIRY == 1800

\* ---------------------------------------------------------- TokenCodec

\* mutant: the payload is built with another scope
buildTokenPayloadOtherScope(now) == [scope |-> {"blog:read"}, issuedAt |-> now]

\* { scope: ['blog:create'], issuedAt: Date.now() }
buildTokenPayload(now) == [scope |-> {"blog:create"}, issuedAt |-> now]

\* jsonwebtoken's clock: Math.floor(Date.now() / 1000)
ClockTimestamp(now) == now \div 1000

\* jwt.sign(payload, secret, { expiresIn }): iat and exp are added in whole
\* seconds, the signature binds the claims to the secret
jwtSign(payload, secret, expiresIn, now) ==
  LET claims == [scope    |-> payload.scope,
                 issuedAt |-> payload.issuedAt,
                 iat      |-> ClockTimestamp(now),
                 exp      |-> ClockTimestamp(now) + expiresIn]
  IN  [kind |-> "jwt", claims |-> claims, sig |-> [key |-> secret, over |-> claims]]

NoClaims == [scope |-> {}, issuedAt |-> 0, iat |-> 0, exp |-> 0]

\* a string that is no JSON web token, and the empty string
GarbageToken == [kind |-> "garbage", claims |-> NoClaims, sig |-> [key |-> "", over |-> NoClaims]]

EmptyToken == [kind |-> "empty", claims |-> NoClaims, sig |-> [key |-> "", over |-> NoClaims]]

NoToken == [kind |-> "undefined", claims |-> NoClaims, sig |-> [key |-> "", over |-> NoClaims]]

\* mutant: the expiry test is > where the library has >=
jwtVerifiesLate(token, secret, now) ==
  /\ token.kind = "jwt"
  /\ token.sig.key = secret
  /\ token.sig.over = token.claims
  /\ ~(ClockTimestamp(now) > token.claims.exp)

\* jwt.verify(token, secret) does not throw
jwtVerifies(token, secret, now) ==
  /\ token.kind = "jwt"
  /\ token.sig.key = secret
  /\ token.sig.over = token.claims
  /\ ~(ClockTimestamp(now) >= token.claims.exp)

\* mutant: any non-empty secretKey is accepted
loginRouteAnyKey(secretKey, now) ==
  IF secretKey \in {"", "#undefined"}
    THEN [op |-> "login", secretKey |-> secretKey, at |-> now, status |-> 400, token |-> NoToken]
  ELSE [op |-> "login", secretKey |-> secretKey, at |-> now, status |-> 200,
        token |-> jwtSign(buildTokenPayload(now), AUTH_TOKEN_SECRET, TOKEN_EXPIRY, now)]

\* POST /auth/login, lines 283-297; secretKey is a string or "#undefined"
loginRoute(secretKey, now) ==
  IF secretKey \in {"", "#undefined"}
    THEN [op |-> "login", secretKey |-> secretKey, at |-> now, status |-> 400, token |-> NoToken]
  ELSE IF secretKey # ADMIN_SECRET_KEY
    THEN [op |-> "login", secretKey |-> secretKey, at |-> now, status |-> 401, token |-> NoToken]
  ELSE [op |-> "login", secretKey |-> secretKey, at |-> now, status |-> 200,
        token |-> jwtSign(buildTokenPayload(now), AUTH_TOKEN_SECRET, TOKEN_EXPIRY, now)]

\* POST /auth/verify, lines 299-312
verifyRoute(token, now) ==
  IF token.kind \in {"undefined", "empty"}
    THEN [op |-> "verify", token |-> token, at |-> now, status |-> 400,
          valid |-> FALSE, decoded |-> NoClaims]
  ELSE IF jwtVerifies(token, AUTH_TOKEN_SECRET, now)
    THEN [op |-> "verify", token |-> token, at |-> now, status |-> 200,
          valid |-> TRUE, decoded |-> token.claims]
  ELSE [op |-> "verify", token |-> token, at |-> now, status |-> 401,
        valid |-> FALSE, decoded |-> NoClaims]

\* ------------------------------------------------------------ AuthGate

Bearer == <<"B","e","a","r","e","r"," ">>

startsWith(s, prefix) ==
  /\ s # Undefined
  /\ Len(s) >= Len(prefix)
  /\ SubSeq(s, 1, Len(prefix)) = prefix

\* An Authorization header is the text in front of the credential followed by
\* the credential; text Undefined is a request without the header.
NoHeader == [text |-> Undefined, token |-> NoToken]

\* authorization.slice('Bearer '.length).trim()
HeaderToken(h) ==
  IF trim(SubSeq(h.text, Len(Bearer) + 1, Len(h.text))) = <<>>
    THEN h.token ELSE GarbageToken

\* mutant: the catch branch falls through to next()
verifyTokenNextOnError(h, now) ==
  IF h.text = Undefined \/ ~startsWith(h.text, Bearer) THEN "missing" ELSE "pass"

\* mutant: the decoded claims are trusted without the signature check
verifyTokenUnsigned(h, now) ==
  IF h.text = Undefined \/ ~startsWith(h.text, Bearer)
    THEN "missing"
  ELSE IF HeaderToken(h).kind = "jwt"
          /\ ~(ClockTimestamp(now) >= HeaderToken(h).claims.exp) THEN "pass"
  ELSE "invalid"

\* verifyToken, lines 235-249: "missing" and "invalid" answer 401, "pass" is next()
verifyToken(h, now) ==
  IF h.text = Undefined \/ ~startsWith(h.text, Bearer)
    THEN "missing"
  ELSE IF jwtVerifies(HeaderToken(h), AUTH_TOKEN_SECRET, now) THEN "pass"
  ELSE "invalid"

\* --------------------------------------------------------------- dates

\* A Date is a UTC day number and the milliseconds into that day; set is
\* FALSE for undefined and for an Invalid Date.
NoDate == [set |-> FALSE, day |-> 0, ms |-> 0]

MsPerDay == 86400000

\* new Date(Date.now())
DateOfClock(now) == [set |-> TRUE, day |-> now \div MsPerDay, ms |-> now % MsPerDay]

DigitVal(c) ==
  CASE c = "0" -> 0 [] c = "1" -> 1 [] c = "2" -> 2 [] c = "3" -> 3 [] c = "4" -> 4
    [] c = "5" -> 5 [] c = "6" -> 6 [] c = "7" -> 7 [] c = "8" -> 8 [] c = "9" -> 9

RECURSIVE DigitsVal(_)
DigitsVal(s) ==
  IF s = <<>> THEN 0 ELSE 10 * DigitsVal(SubSeq(s, 1, Len(s) - 1)) + DigitVal(s[Len(s)])

AllDigits(s) == \A i \in 1..Len(s) : s[i] \in Digits

IsLeap(y) == (y % 4 = 0 /\ y % 100 # 0) \/ y % 400 = 0

DaysInMonth(y, m) ==
  IF m = 2 THEN (IF IsLeap(y) THEN 29 ELSE 28)
  ELSE IF m \in {4, 6, 9, 11} THEN 30 ELSE 31

\* days from 1970-01-01 to y-m-d in the proleptic Gregorian calendar
DaysFromCivil(y, m, d) ==
  LET yy  == IF m <= 2 THEN y - 1 ELSE y
      era == yy \div 400
      yoe == yy - era * 400
      mp  == IF m > 2 THEN m - 3 ELSE m + 9
      doy == (153 * mp + 2) \div 5 + d - 1
      doe == yoe * 365 + yoe \div 4 - yoe \div 100 + doy
  IN  era * 146097 + doe - 719468

\* new Date(string) for the ISO forms YYYY-MM-DD and YYYY-MM-DDTHH:MM:SSZ; any
\* other string of the inputs is one the engine's parser rejects (Invalid Date)
ParseDate(s) ==
  LET dateOk == /\ Len(s) \in {10, 20}
                /\ AllDigits(SubSeq(s, 1, 4)) /\ s[5] = "-"
                /\ AllDigits(SubSeq(s, 6, 7)) /\ s[8] = "-"
                /\ AllDigits(SubSeq(s, 9, 10))
      y == DigitsVal(SubSeq(s, 1, 4))
      m == DigitsVal(SubSeq(s, 6, 7))
      d == DigitsVal(SubSeq(s, 9, 10))
      timeOk == /\ Len(s) = 20 /\ s[11] = "T" /\ s[14] = ":" /\ s[17] = ":" /\ s[20] = "Z"
                /\ AllDigits(SubSeq(s, 12, 13)) /\ AllDigits(SubSeq(s, 15, 16))
                /\ AllDigits(SubSeq(s, 18, 19))
                /\ DigitsVal(SubSeq(s, 12, 13)) < 24
                /\ DigitsVal(SubSeq(s, 15, 16)) < 60
                /\ DigitsVal(SubSeq(s, 18, 19)) < 60
      ms == ((DigitsVal(SubSeq(s, 12, 13)) * 60 + DigitsVal(SubSeq(s, 15, 16))) * 60
             + DigitsVal(SubSeq(s, 18, 19))) * 1000
  IN  IF dateOk /\ m \in 1..12 /\ d \in 1..DaysInMonth(y, m) /\ (Len(s) = 10 \/ timeOk)
        THEN [set |-> TRUE, day |-> DaysFromCivil(y, m, d), ms |-> IF Len(s) = 10 THEN 0 ELSE ms]
        ELSE NoDate

\* mutant: the time of day is kept
setUTCHoursKept(date) == date

\* candidate.setUTCHours(0, 0, 0, 0)
setUTCHours0(date) == [date EXCEPT !.ms = 0]

\* lines 361-368
PublishedAt(date) ==
  IF date = Undefined \/ date = <<>> THEN NoDate
  ELSE IF ParseDate(date).set THEN setUTCHours0(ParseDate(date)) ELSE NoDate

DateLess(a, b) == a.day < b.day \/ (a.day = b.day /\ a.ms < b.ms)

\* ---------------------------------------------------- ContentValidator

\* z.string().url(): the string parses as an absolute URL, which for the inputs
\* is a scheme of letters followed by "://" and a non-empty rest
RECURSIVE SchemeEnd(_, _)
SchemeEnd(s, i) ==
  IF i > Len(s) THEN 0
  ELSE IF s[i] = ":" THEN i
  ELSE IF s[i] \in LowerAlpha THEN SchemeEnd(s, i + 1) ELSE 0

IsUrl(s) ==
  LET e == SchemeEnd(s, 1)
  IN  e > 1 /\ Len(s) > e + 2 /\ s[e + 1] = "/" /\ s[e + 2] = "/"

\* mutant: || in place of ??, so an empty slug falls back to the title
SlugSourceOr(body) ==
  IF body.slug \notin {Undefined, Null, <<>>} THEN body.slug
  ELSE IF body.title \notin {Undefined, Null, <<>>} THEN body.title ELSE <<>>

\* String(req.body?.slug ?? req.body?.title ?? ''): ?? passes over undefined
\* and null
SlugSource(body) ==
  IF body.slug \notin {Undefined, Null} THEN body.slug
  ELSE IF body.title \notin {Undefined, Null} THEN body.title ELSE <<>>

\* { ...req.body, slug: normalizedSlug }
Payload(body) == [body EXCEPT !.slug = sanitizeSlug(SlugSource(body))]

\* mutant: content of 19 characters is accepted
IssuesContentMin19(p) ==
     {f \in {"title"}   : p.title = Undefined \/ Len(p.title) < 3 \/ Len(p.title) > 160}
\cup {f \in {"slug"}    : Len(p.slug) < 3 \/ Len(p.slug) > 160 \/ ~SlugRegex(p.slug)}
\cup {f \in {"author"}  : p.author # Undefined /\ Len(p.author) > 120}
\cup {f \in {"date"}    : p.date # Undefined /\ Len(p.date) > 40}
\cup {f \in {"excerpt"} : p.excerpt # Undefined /\ Len(p.excerpt) > 320}
\cup {f \in {"image"}   : p.image # Undefined /\ p.image # <<>> /\ ~IsUrl(p.image)}
\cup {f \in {"content"} : p.content = Undefined \/ Len(p.content) < 19}

\* blogPayloadSchema.safeParse, lines 151-167: the fields with an issue
Issues(p) ==
     {f \in {"title"}   : p.title = Undefined \/ Len(p.title) < 3 \/ Len(p.title) > 160}
\cup {f \in {"slug"}    : Len(p.slug) < 3 \/ Len(p.slug) > 160 \/ ~SlugRegex(p.slug)}
\cup {f \in {"author"}  : p.author # Undefined /\ Len(p.author) > 120}
\cup {f \in {"date"}    : p.date # Undefined /\ Len(p.date) > 40}
\cup {f \in {"excerpt"} : p.excerpt # Undefined /\ Len(p.excerpt) > 320}
\cup {f \in {"image"}   : p.image # Undefined /\ p.image # <<>> /\ ~IsUrl(p.image)}
\cup {f \in {"content"} : p.content = Undefined \/ Len(p.content) < 20}

PerceptronTeam == <<"P","e","r","c","e","p","t","r","o","n"," ","T","e","a","m">>

OrEmpty(s) == IF s = Undefined THEN <<>> ELSE s

\* new BlogPost({...}), lines 370-378, with the schema's trim setters and its
\* timestamps (lines 169-180)
NewBlogPost(data, now) ==
  [slug        |-> trim(data.slug),
   title       |-> trim(data.title),
   author      |-> IF trim(OrEmpty(data.author)) = <<>> THEN PerceptronTeam
                   ELSE trim(OrEmpty(data.author)),
   excerpt     |-> trim(OrEmpty(data.excerpt)),
   image       |-> trim(OrEmpty(data.image)),
   content     |-> trim(data.content),
   publishedAt |-> PublishedAt(data.date),
   createdAt   |-> DateOfClock(now)]

\* the schema's required validators, which save() runs before the insert: a
\* required String must not be empty
SchemaValid(doc) == doc.slug # <<>> /\ doc.title # <<>> /\ doc.content # <<>>

\* ---------------------------------------------------- ContentRepository

\* mutant: the unique index is on the title
DuplicateKeyOnTitle(docs, doc) == \E i \in 1..Len(docs) : docs[i].title = doc.title

\* the unique index on slug (lines 171, 182): an insert of a slug the
\* collection holds fails with code 11000
DuplicateKey(docs, doc) == \E i \in 1..Len(docs) : docs[i].slug = doc.slug

\* mutant: save() replaces the stored post that has the new post's title
insertOneUpsert(docs, doc) ==
  IF \E i \in 1..Len(docs) : docs[i].title = doc.title
    THEN [i \in 1..Len(docs) |-> IF docs[i].title = doc.title THEN doc ELSE docs[i]]
    ELSE Append(docs, doc)

insertOne(docs, doc) == Append(docs, doc)

\* mutant: the lookup ignores case
findOneIgnoreCase(docs, slug) ==
  {i \in 1..Len(docs) : toLowerCase(docs[i].slug) = toLowerCase(slug)}

\* BlogPost.findOne({ slug }), the set of matching documents' positions
findOne(docs, slug) == {i \in 1..Len(docs) : docs[i].slug = slug}

\* ------------------------------------------------------- ResponseMapper

\* toBlogResponse, lines 221-233; date is the value handed to formatDisplayDate
toBlogResponse(doc) ==
  [slug    |-> doc.slug,
   title   |-> doc.title,
   author  |-> IF doc.author = <<>> THEN PerceptronTeam ELSE doc.author,
   content |-> doc.content,
   date    |-> IF doc.publishedAt.set THEN doc.publishedAt ELSE doc.createdAt]

\* ------------------------------------------------ POST /blogs, lines 349-391

NoDoc ==
  [slug |-> <<>>, title |-> <<>>, author |-> <<>>, excerpt |-> <<>>, image |-> <<>>,
   content |-> <<>>, publishedAt |-> NoDate, createdAt |-> NoDate]

\* The request up to its first await: the gate, then the handler's
\* normalisation, validation and document construction, then save()'s own
\* validation.  pc "saving" is a request whose insert is at the store;
\* "done" is a request that was answered.
BeginCreate(h, body, now) ==
  LET gate   == verifyToken(h, now)
      data   == Payload(body)
      issues == Issues(data)
      doc    == NewBlogPost(data, now)
      base   == [op |-> "create", header |-> h, body |-> body, at |-> now, gate |-> gate,
                 validated |-> FALSE, issues |-> {}, doc |-> NoDoc, pc |-> "done",
                 outcome |-> "none", status |-> 401, slug |-> <<>>, logged |-> 0]
  IN  IF gate = "missing" THEN base
      ELSE IF gate = "invalid" THEN [base EXCEPT !.logged = 1]
      ELSE IF issues # {}
        THEN [base EXCEPT !.validated = TRUE, !.issues = issues, !.status = 400]
      ELSE IF ~SchemaValid(doc)
        THEN [base EXCEPT !.validated = TRUE, !.doc = doc, !.outcome = "invalid",
                          !.status = 500, !.logged = 1]
      ELSE [base EXCEPT !.validated = TRUE, !.doc = doc, !.pc = "saving", !.status = 0]

\* The handler after await document.save(): 201 with the slug, 409 on code
\* 11000, otherwise the error is logged and the answer is 500.
EndCreate(r) ==
  IF r.outcome = "ok"
    THEN [r EXCEPT !.pc = "done", !.status = 201, !.slug = r.doc.slug]
  ELSE IF r.outcome = "dup"
    THEN [r EXCEPT !.pc = "done", !.status = 409]
  ELSE [r EXCEPT !.pc = "done", !.status = 500, !.logged = 1]

\* ----------------------------------------------------------- read path

\* GET /blogs/:slug, lines 335-347, on a store that answers
getRoute(docs, slug) ==
  IF findOne(docs, slug) = {}
    THEN [op |-> "get", slug |-> slug, status |-> 404, post |-> toBlogResponse(NoDoc)]
    ELSE [op |-> "get", slug |-> slug, status |-> 200,
          post |-> toBlogResponse(docs[CHOOSE i \in findOne(docs, slug) :
                                         \A j \in findOne(docs, slug) : i <= j])]

\* Number.parseInt(limit, 10): leading white space, an optional sign, then the
\* longest run of digits; nan when there is none.  An absent parameter is the
\* string "undefined".
RECURSIVE DigitRun(_)
DigitRun(s) ==
  IF s # <<>> /\ Head(s) \in Digits THEN <<Head(s)>> \o DigitRun(Tail(s)) ELSE <<>>

parseInt(limit) ==
  LET t    == IF limit = Undefined THEN <<"u","n","d","e","f","i","n","e","d">>
              ELSE TrimStart(limit)
      neg  == t # <<>> /\ Head(t) = "-"
      body == IF t # <<>> /\ Head(t) \in {"-", "+"} THEN Tail(t) ELSE t
      run  == DigitRun(body)
  IN  IF run = <<>> THEN [nan |-> TRUE, val |-> 0]
      ELSE [nan |-> FALSE, val |-> IF neg THEN 0 - DigitsVal(run) ELSE DigitsVal(run)]

LimitCap == 100

\* mutant: the parsed limit is not capped
safeLimitNoCap(limit) ==
  LET parsed == parseInt(limit)
  IN  IF ~parsed.nan /\ parsed.val > 0 THEN parsed.val ELSE 0

\* safeLimit ?? 0, line 320 and 324: 0 is the store's "no limit"
safeLimit(limit) ==
  LET parsed == parseInt(limit)
  IN  IF ~parsed.nan /\ parsed.val > 0
        THEN (IF parsed.val < LimitCap THEN parsed.val ELSE LimitCap)
        ELSE 0

\* .sort({ publishedAt: -1, createdAt: -1 }): a before b.  A document without
\* publishedAt sorts as null, below every date, so last in descending order.
SortsBefore(a, b) ==
  IF a.publishedAt.set # b.publishedAt.set THEN a.publishedAt.set
  ELSE IF a.publishedAt.set /\ a.publishedAt # b.publishedAt
    THEN DateLess(b.publishedAt, a.publishedAt)
  ELSE DateLess(b.createdAt, a.createdAt)

\* the documents in sort order; documents equal in both keys keep the
\* store's order
SortDocs(docs) ==
  LET n == Len(docs)
      Precedes(i, j) ==
        \/ SortsBefore(docs[i], docs[j])
        \/ ~SortsBefore(docs[j], docs[i]) /\ i < j
      rank == [i \in 1..n |-> 1 + Cardinality({j \in 1..n : Precedes(j, i)})] \o <<>>
  IN  [p \in 1..n |-> docs[CHOOSE i \in 1..n : rank[i] = p]]

\* .limit(n)
Limit(docs, n) == IF n = 0 \/ n >= Len(docs) THEN docs ELSE SubSeq(docs, 1, n)

\* GET /blogs, lines 316-333, on a store that answers
listRoute(docs, limit) ==
  LET found == Limit(SortDocs(docs), safeLimit(limit))
  IN  [op |-> "list", limit |-> limit, status |-> 200, total |-> Len(docs),
       posts |-> [i \in 1..Len(found) |-> toBlogResponse(found[i])]]

\* a read whose query the store fails: logged, 500 (lines 329-331, 343-345)
readFailure(op) == [op |-> op, status |-> 500]

\* ---------------------------------------------------- bounds and inputs

\* create requests whose insert reaches the store
MaxReq == 2

MaxAuthReq == 1

\* tokens issued
MaxTokens == 2

\* lines written to the error log
MaxLog == 1

\* milliseconds into a second at which a login may happen
Jitter == 500

\* posts of the store GET /blogs is checked on
MaxPosts == 102

ExpiryMs == TOKEN_EXPIRY * 1000

AuthTimes == {0, Jitter, ExpiryMs, ExpiryMs + Jitter}

SecretKeys == {ADMIN_SECRET_KEY, "wrong-passphrase", "", "#undefined"}

\* a well-formed token signed with another secret, not expired at any model time
ForgedToken == jwtSign(buildTokenPayload(0), "attacker-secret", 1000 * TOKEN_EXPIRY, 0)

\* an issued token whose exp claim was raised, the signature left as it was
Tampered(t) == [t EXCEPT !.claims.exp = @ + 1000 * TOKEN_EXPIRY]

Presentable ==
  issued \cup {Tampered(t) : t \in issued}
         \cup {ForgedToken, GarbageToken, EmptyToken, NoToken}

OtherTexts ==
  { <<"b","e","a","r","e","r"," ">>, <<"B","a","s","i","c"," ">>, <<>> }

AuthHeaders ==
  {NoHeader} \cup {[text |-> Bearer, token |-> t] : t \in Presentable}
             \cup {[text |-> Bearer \o <<" ">>, token |-> t] : t \in issued}
             \cup {[text |-> x, token |-> t] : x \in OtherTexts, t \in issued}

ContentHeaders == {NoHeader} \cup {[text |-> Bearer, token |-> t] : t \in issued}

X20 == Rep("x", 20)

Body(title, slug, content) ==
  [title |-> title, slug |-> slug, author |-> Undefined, date |-> Undefined,
   excerpt |-> Undefined, image |-> Undefined, content |-> content]

\* "Abc" and "abc!" normalise to the same slug
BodyAbc == Body(<<"A","b","c">>, Undefined, X20)

BodyAbcBang == Body(<<"a","b","c","!">>, Undefined, Rep("y", 21))

BodyExplicitSlug ==
  Body(<<"X","y","z">>, <<" ","A","-","-","B"," ","c","!"," ">>, <<" ">> \o X20 \o <<"\n">>)

BodyShortContent == Body(<<"A","b","c">>, Undefined, Rep("x", 19))

BodyNoContent == Body(<<"A","b","c">>, Undefined, Undefined)

BodyBlankContent == Body(<<"A","b","c">>, Undefined, Rep(" ", 20))

BodyShortTitle == Body(<<"a","b">>, Undefined, X20)

BodyLongSlug == Body(<<"A","b","c">>, Rep("a", 161), X20)

BodyMaxSlug == Body(<<"A","b","c">>, Rep("a", 160), X20)

BodyPadded == Body(<<" ","a"," ">>, <<"p","a","d">>, <<"x">> \o Rep(" ", 19))

BodyDated ==
  [Body(<<"W","x","y">>, Undefined, X20) EXCEPT
     !.date = <<"2","0","2","4","-","0","1","-","0","5","T","2","3",":","3","0",":","0","0","Z">>,
     !.image = <<"h","t","t","p",":","/","/","x">>]

\* a publication date before the post's creation
BodyBackdated ==
  [Body(<<"O","l","d">>, Undefined, X20) EXCEPT
     !.date = <<"1","9","6","9","-","1","2","-","3","1">>]

\* a date string the Date constructor cannot parse
BodyBadDate ==
  [Body(<<"B","a","d">>, Undefined, X20) EXCEPT
     !.date = <<"n","o","t"," ","a"," ","d","a","t","e">>]

BodyEmptyDate == [Body(<<"N","o","w">>, Undefined, X20) EXCEPT !.date = <<>>]

\* a date string of 41 characters
BodyLongDate ==
  [Body(<<"L","n","g">>, Undefined, X20) EXCEPT !.date = Rep("9", 41)]

\* an explicit slug that is the empty string
BodyEmptySlug == Body(<<"E","m","p","t","y">>, <<>>, X20)

\* "slug": null
BodyNullSlug == Body(<<"N","u","l">>, Null, X20)

Bodies ==
  {BodyAbc, BodyAbcBang, BodyExplicitSlug, BodyShortContent, BodyNoContent,
   BodyBlankContent, BodyShortTitle, BodyLongSlug, BodyMaxSlug, BodyEmptySlug,
   BodyNullSlug}

AuthBodies == {BodyAbc, BodyShortContent}

Slugs == {<<"a","b","c">>, <<"a","-","b","-","c">>, <<"A","b","c">>}

LimitParams ==
  {Undefined, <<>>, <<"2">>, <<"0">>, <<"-","1">>, <<"a","b","c">>, <<"1","0","0">>,
   <<"1","0","1">>, <<"2","5","0">>, <<"2","a">>, <<" ","3">>, <<"1",".","5">>}

PublishBodies ==
  {BodyAbc, BodyDated, BodyBackdated, BodyBadDate, BodyEmptyDate, BodyLongDate, BodyPadded}

PublishTimes == {Jitter}

PublishLimits == {Undefined, <<"1">>}

\* -------------------------------------------------------- state machine

\* length of the strings the normalizer is applied to
MaxSlugInput == 4

SlugAlphabet == {"a", "Z", "7", " ", "\t", "-", "!"}

SlugInputs == UNION {[1..k -> SlugAlphabet] : k \in 0..MaxSlugInput}

\* the environment of the process: a variable that is not set is Unset
Unset == "#undefined"

MONGODB_URI == "mongodb://store/blog"

\* !value of a string or undefined
Falsy(v) == v \in {Unset, ""}

\* mutant: the store URI is not checked
ConfigMissingNoUri(env) ==
  LET admin  == env.admin
      secret == IF Falsy(env.token) THEN admin ELSE env.token
  IN  IF Falsy(admin) THEN "ADMIN_SECRET_KEY"
      ELSE IF Falsy(secret) THEN "AUTH_TOKEN_SECRET"
      ELSE "none"

\* lines 115-134: the first required value that is missing, "none" if all
\* are present; the signing secret defaults to the admin secret
ConfigMissing(env) ==
  LET admin  == env.admin
      secret == IF Falsy(env.token) THEN admin ELSE env.token
  IN  IF Falsy(admin) THEN "ADMIN_SECRET_KEY"
      ELSE IF Falsy(secret) THEN "AUTH_TOKEN_SECRET"
      ELSE IF Falsy(env.uri) THEN "MONGODB_URI"
      ELSE "none"

\* the process that serves the requests of the other specifications
Serving ==
  [phase |-> "listening", code |-> 0, connected |-> TRUE, reachable |-> TRUE,
   env |-> [admin |-> ADMIN_SECRET_KEY, token |-> AUTH_TOKEN_SECRET, uri |-> MONGODB_URI]]

\* app.listen was called (line 272)
Listening == proc.phase = "listening"

NoResponse == [resp |-> [op |-> "none", status |-> 0], seen |-> FALSE]

Init ==
  /\ clock = 0
  /\ issued = {}
  /\ store = <<>>
  /\ reqs = <<>>
  /\ last = NoResponse
  /\ errlog = 0
  /\ healthy \in BOOLEAN
  /\ proc = Serving

\* Date.now() moves on
Tick(times) ==
  /\ \E t \in times : t > clock /\ clock' = t
  /\ UNCHANGED <<issued, store, reqs, last, errlog, healthy, proc>>

\* seen: the tokens issued before the request
Login(keys) ==
  \E k \in keys :
    LET r == loginRoute(k, clock)
    IN  /\ Listening
        /\ r.status = 200 => (r.token \in issued \/ Cardinality(issued) < MaxTokens)
        /\ last' = [resp |-> r, seen |-> issued]
        /\ issued' = IF r.status = 200 THEN issued \cup {r.token} ELSE issued
        /\ UNCHANGED <<clock, store, reqs, errlog, healthy, proc>>

Verify ==
  \E t \in Presentable :
    /\ Listening
    /\ last' = [resp |-> verifyRoute(t, clock), seen |-> FALSE]
    /\ UNCHANGED <<clock, issued, store, reqs, errlog, healthy, proc>>

\* error lines the answered requests may still write
PendingLogs ==
  Cardinality({i \in 1..Len(reqs) : reqs[i].pc = "resume" /\ reqs[i].outcome = "fail"})

LogRoom == errlog + PendingLogs < MaxLog

\* POST /blogs up to its first await; a request answered at once is the last
\* response, a request whose insert went to the store joins reqs
CreateBegin(headers, bodies, cap) ==
  \E h \in headers, b \in bodies :
    LET r == BeginCreate(h, b, clock)
    IN  /\ Listening
        /\ IF r.pc = "saving"
             THEN /\ Len(reqs) < cap
                  /\ reqs' = Append(reqs, r)
                  /\ UNCHANGED <<last, errlog>>
             ELSE /\ r.logged > 0 => LogRoom
                  /\ last' = [resp |-> r, seen |-> FALSE]
                  /\ errlog' = errlog + r.logged
                  /\ UNCHANGED reqs
        /\ UNCHANGED <<clock, issued, store, healthy, proc>>

\* the store executes the insert of request i
StoreInsert(i) ==
  /\ reqs[i].pc = "saving"
  /\ IF DuplicateKey(store, reqs[i].doc)
       THEN /\ reqs' = [reqs EXCEPT ![i].pc = "resume", ![i].outcome = "dup"]
            /\ UNCHANGED store
       ELSE /\ reqs' = [reqs EXCEPT ![i].pc = "resume", ![i].outcome = "ok"]
            /\ store' = insertOne(store, reqs[i].doc)
  /\ UNCHANGED <<clock, issued, last, errlog, healthy, proc>>

\* the store fails the insert of request i for another reason
StoreFail(i) ==
  /\ ~healthy
  /\ reqs[i].pc = "saving"
  /\ LogRoom
  /\ reqs' = [reqs EXCEPT ![i].pc = "resume", ![i].outcome = "fail"]
  /\ UNCHANGED <<clock, issued, store, last, errlog, healthy, proc>>

\* the handler of request i resumes after await document.save()
CreateRespond(i) ==
  /\ reqs[i].pc = "resume"
  /\ reqs' = [reqs EXCEPT ![i] = EndCreate(@)]
  /\ errlog' = errlog + (EndCreate(reqs[i]).logged - reqs[i].logged)
  /\ UNCHANGED <<clock, issued, store, last, healthy, proc>>

\* whether a create has ended with 201 for slug s
Answered201(s) ==
  \E i \in 1..Len(reqs) : reqs[i].pc = "done" /\ reqs[i].status = 201 /\ reqs[i].slug = s

\* whether the store has executed a create's insert of slug s
Inserted(s) ==
  \E i \in 1..Len(reqs) : reqs[i].outcome = "ok" /\ reqs[i].doc.slug = s

\* seen: what the create requests had reached when the store was read
GetBySlug(slugs) ==
  \E s \in slugs :
    /\ Listening
    /\ last' = [resp |-> getRoute(store, s),
                 seen |-> [answered |-> Answered201(s), inserted |-> Inserted(s)]]
    /\ UNCHANGED <<clock, issued, store, reqs, errlog, healthy, proc>>

GetFail(slugs) ==
  \E s \in slugs :
    /\ Listening
    /\ ~healthy
    /\ LogRoom
    /\ last' = [resp |-> readFailure("get"),
                 seen |-> [answered |-> Answered201(s), inserted |-> Inserted(s)]]
    /\ errlog' = errlog + 1
    /\ UNCHANGED <<clock, issued, store, reqs, healthy, proc>>

ListPosts(limits) ==
  \E l \in limits :
    /\ Listening
    /\ last' = [resp |-> listRoute(store, l), seen |-> FALSE]
    /\ UNCHANGED <<clock, issued, store, reqs, errlog, healthy, proc>>

ListFail ==
  /\ Listening
  /\ ~healthy
  /\ LogRoom
  /\ last' = [resp |-> readFailure("list"), seen |-> FALSE]
  /\ errlog' = errlog + 1
  /\ UNCHANGED <<clock, issued, store, reqs, healthy, proc>>

\* a post created by an earlier run of the pipeline
SyntheticPost(i) ==
  [NoDoc EXCEPT !.slug = Rep("p", i + 2), !.title = <<"A","b","c">>,
                !.author = PerceptronTeam, !.content = X20,
                !.createdAt = DateOfClock(i)]

\* GET /health, lines 251-253
Health ==
  /\ Listening
  /\ last' = [resp |-> [op |-> "health", status |-> 200], seen |-> FALSE]
  /\ UNCHANGED <<clock, issued, store, reqs, errlog, healthy, proc>>

\* defaultHandler, lines 394-398
Unmatched ==
  /\ Listening
  /\ last' = [resp |-> [op |-> "unmatched", status |-> 404], seen |-> FALSE]
  /\ UNCHANGED <<clock, issued, store, reqs, errlog, healthy, proc>>

\* process.exit(1) after console.error
Exit(p) == [p EXCEPT !.phase = "exited", !.code = 1]

\* the module's top level, lines 115-134 and 277: the configuration checks,
\* then start() up to await mongoose.connect
CheckConfig ==
  /\ proc.phase = "config"
  /\ IF ConfigMissing(proc.env) # "none"
       THEN proc' = Exit(proc) /\ errlog' = errlog + 1
       ELSE proc' = [proc EXCEPT !.phase = "connecting"] /\ UNCHANGED errlog
  /\ UNCHANGED <<clock, issued, store, reqs, last, healthy>>

\* mongoose.connect resolves; start() goes on to app.listen (lines 262, 272)
ConnectOk ==
  /\ proc.phase = "connecting"
  /\ proc.reachable
  /\ proc' = [proc EXCEPT !.phase = "listening", !.connected = TRUE]
  /\ UNCHANGED <<clock, issued, store, reqs, last, errlog, healthy>>

\* mongoose.connect rejects (lines 264-267)
ConnectFail ==
  /\ proc.phase = "connecting"
  /\ ~proc.reachable
  /\ proc' = Exit(proc)
  /\ errlog' = errlog + 1
  /\ UNCHANGED <<clock, issued, store, reqs, last, healthy>>

EnvValues == {Unset, "", "value"}

\* the process before its first statement, in every environment
InitStartup ==
  /\ clock = 0
  /\ issued = {}
  /\ store \in {[i \in 1..n |-> SyntheticPost(i)] : n \in 0..1}
  /\ reqs = <<>>
  /\ last = NoResponse
  /\ errlog = 0
  /\ healthy = TRUE
  /\ proc \in [phase : {"config"}, code : {0}, connected : {FALSE}, reachable : BOOLEAN,
               env : [admin : EnvValues, token : EnvValues, uri : EnvValues]]

NextStartup ==
  \/ CheckConfig
  \/ ConnectOk
  \/ ConnectFail
  \/ Health
  \/ Unmatched
  \/ GetBySlug(Slugs)
  \/ ListPosts(PublishLimits)

\* the start-up steps need no request: they run as soon as they can
SpecStartup ==
  InitStartup /\ [][NextStartup]_vars
    /\ WF_vars(CheckConfig) /\ WF_vars(ConnectOk) /\ WF_vars(ConnectFail)

FaultKeys == {ADMIN_SECRET_KEY, "wrong-passphrase"}

FaultHeaders ==
  {NoHeader, [text |-> Bearer, token |-> GarbageToken]}
    \cup {[text |-> Bearer, token |-> t] : t \in issued}

FaultBodies == {BodyAbc, BodyAbcBang, BodyMaxSlug, BodyShortContent, BodyBlankContent}

FaultSlugs == {<<"a","b","c">>}

\* every route, on a store that may fail any operation
InitFaults == Init /\ ~healthy

NextFaults ==
  \/ Login(FaultKeys)
  \/ Verify
  \/ CreateBegin(FaultHeaders, FaultBodies, MaxReq)
  \/ \E i \in 1..Len(reqs) : StoreInsert(i)
  \/ \E i \in 1..Len(reqs) : StoreFail(i)
  \/ \E i \in 1..Len(reqs) : CreateRespond(i)
  \/ GetBySlug(FaultSlugs)
  \/ GetFail(FaultSlugs)
  \/ ListPosts({Undefined})
  \/ ListFail
  \/ Health
  \/ Unmatched

SpecFaults == InitFaults /\ [][NextFaults]_vars

\* sanitizeSlug on its own: a string is handed to it, then its result is
\* handed to it again
InitSlug ==
  /\ clock = 0
  /\ issued = {}
  /\ store = <<>>
  /\ reqs = <<>>
  /\ last \in {[resp |-> [op |-> "input", status |-> 0, input |-> x,
                          once |-> <<>>, twice |-> <<>>],
                seen |-> FALSE] : x \in SlugInputs}
  /\ errlog = 0
  /\ healthy = TRUE
  /\ proc = Serving

Normalize ==
  /\ last.resp.op = "input"
  /\ last' = [last EXCEPT !.resp.op = "normalized",
                          !.resp.once = sanitizeSlug(last.resp.input),
                          !.resp.twice = sanitizeSlug(sanitizeSlug(last.resp.input))]
  /\ UNCHANGED <<clock, issued, store, reqs, errlog, healthy, proc>>

NextSlug == Normalize

SpecSlug == InitSlug /\ [][NextSlug]_vars

\* the content pipeline on a store that answers: every payload, two requests
\* at the store, the clock standing still
InitContent == Init /\ healthy

Next ==
  \/ Login({ADMIN_SECRET_KEY})
  \/ CreateBegin(ContentHeaders, Bodies, MaxReq)
  \/ \E i \in 1..Len(reqs) : StoreInsert(i)
  \/ \E i \in 1..Len(reqs) : CreateRespond(i)
  \/ GetBySlug(Slugs)

Spec == InitContent /\ [][Next]_vars

\* the token protocol: every secret, header and token, at the instants around
\* the expiry, on a store that answers
NextAuth ==
  \/ Tick(AuthTimes)
  \/ Login(SecretKeys)
  \/ Verify
  \/ CreateBegin(AuthHeaders, AuthBodies, MaxAuthReq)
  \/ \E i \in 1..Len(reqs) : StoreInsert(i)
  \/ \E i \in 1..Len(reqs) : CreateRespond(i)

SpecAuth == InitContent /\ [][NextAuth]_vars

\* publication: dated, undated and padded payloads, created before and after
\* the clock moves, and the list of what was stored
NextPublish ==
  \/ Tick(PublishTimes)
  \/ Login({ADMIN_SECRET_KEY})
  \/ CreateBegin(ContentHeaders, PublishBodies, MaxReq)
  \/ \E i \in 1..Len(reqs) : StoreInsert(i)
  \/ \E i \in 1..Len(reqs) : CreateRespond(i)
  \/ ListPosts(PublishLimits)

SpecPublish == InitContent /\ [][NextPublish]_vars

\* GET /blogs on a store of n posts
InitList ==
  /\ clock = MaxPosts
  /\ issued = {}
  /\ store \in {[i \in 1..n |-> SyntheticPost(i)] : n \in 0..MaxPosts}
  /\ reqs = <<>>
  /\ last = NoResponse
  /\ errlog = 0
  /\ healthy = TRUE
  /\ proc = Serving

NextList == ListPosts(LimitParams)

SpecList == InitList /\ [][NextList]_vars

\* ------------------------------------------------------------- claims

\* the create requests that were answered
Answered ==
  {reqs[i] : i \in {j \in 1..Len(reqs) : reqs[j].pc = "done"}}
    \cup (IF last.resp.op = "create" THEN {last.resp} ELSE {})

\* the create requests whose insert went to the store
AtStore == {reqs[i] : i \in 1..Len(reqs)}

\* the header is 'Bearer <token>', the token one that login issued and that
\* had not reached its exp claim at instant at
GoodCredential(h, at) ==
  /\ h.text # Undefined
  /\ Len(h.text) >= 7
  /\ SubSeq(h.text, 1, 7) = <<"B","e","a","r","e","r"," ">>
  /\ \A i \in 8..Len(h.text) : h.text[i] = " "
  /\ h.token \in issued
  /\ at \div 1000 < h.token.claims.exp

\* C1: every post of the store was inserted by a create request whose header
\* was 'Bearer <token>' with a token that verified when the gate ran, and a
\* create request without such a header is answered 401, whatever its payload,
\* without validation and without an insert.
C1_OnlyAuthorizedInserts ==
  /\ \A i \in 1..Len(store) :
       \E r \in AtStore :
         r.outcome = "ok" /\ r.doc = store[i] /\ GoodCredential(r.header, r.at)
  /\ \A r \in AtStore : GoodCredential(r.header, r.at)
  /\ \A r \in Answered :
       ~GoodCredential(r.header, r.at) =>
         /\ r.status = 401
         /\ ~r.validated
         /\ r.issues = {}
         /\ r.outcome = "none"
         /\ r.doc = NoDoc

\* a post is stored, and a create with a valid payload and an expired token
\* was just answered 401
C1_Witness ==
  /\ Len(store) > 0
  /\ last.resp.op = "create"
  /\ last.resp.status = 401
  /\ last.resp.body = BodyAbc
  /\ last.resp.header.text = Bearer
  /\ last.resp.header.token \in issued

\* C2: a login with the admin secret answers 200 with a token, and a later
\* verify of that token, at an instant before the token's exp claim, answers
\* 200 with valid true and a decoded scope containing "blog:create".
C2_LoginThenVerify ==
  /\ (last.resp.op = "login" /\ last.resp.secretKey = ADMIN_SECRET_KEY) =>
       /\ last.resp.status = 200
       /\ last.resp.token.kind = "jwt"
       /\ last.resp.token \in issued
  /\ (/\ last.resp.op = "verify"
      /\ last.resp.token \in issued
      /\ last.resp.at \div 1000 < last.resp.token.claims.exp) =>
       /\ last.resp.status = 200
       /\ last.resp.valid
       /\ "blog:create" \in last.resp.decoded.scope

\* a token issued by an earlier login was verified at a later instant
C2_Witness ==
  /\ last.resp.op = "verify"
  /\ last.resp.token \in issued
  /\ last.resp.at > last.resp.token.claims.issuedAt
  /\ last.resp.status = 200

\* C3, as stated: a login whose secretKey is not the admin secret, the empty
\* one included, is answered 401 and no token is issued.
C3_Original ==
  (last.resp.op = "login" /\ last.resp.secretKey # ADMIN_SECRET_KEY) =>
    (last.resp.status = 401 /\ last.resp.token = NoToken)

\* C3, amended: a login whose secretKey is not the admin secret issues no
\* token; it is answered 401 when the secretKey is a non-empty value and 400
\* when it is empty or missing; the set of issued tokens is what it was before
\* the request.
C3_WrongSecret ==
  /\ (last.resp.op = "login" /\ last.resp.secretKey # ADMIN_SECRET_KEY) =>
       /\ last.resp.token = NoToken
       /\ last.resp.status = (IF last.resp.secretKey \in {"", "#undefined"} THEN 400 ELSE 401)
       /\ issued = last.seen

\* a login with a wrong, non-empty secretKey was answered
C3_Witness ==
  /\ last.resp.op = "login"
  /\ last.resp.secretKey = "wrong-passphrase"
  /\ last.resp.status = 401
  /\ issued = {}

\* the configured expiry has elapsed since token t was issued
Elapsed(t, at) == at >= t.claims.issuedAt + ExpiryMs

\* the header names the bearer scheme
BearerScheme(h) ==
  /\ h.text # Undefined
  /\ Len(h.text) >= 7
  /\ SubSeq(h.text, 1, 7) = <<"B","e","a","r","e","r"," ">>

\* C4: once the configured expiry has elapsed since a token was issued, every
\* verification of it fails: POST /auth/verify answers 401 with valid false,
\* and the gate of POST /blogs answers 401 without running the handler; this
\* stays so after any later operation, new logins included.
C4_ExpiredRejected ==
  /\ (/\ last.resp.op = "verify"
      /\ last.resp.token \in issued
      /\ Elapsed(last.resp.token, last.resp.at)) =>
       (last.resp.status = 401 /\ ~last.resp.valid)
  /\ \A r \in Answered :
       (/\ BearerScheme(r.header)
        /\ r.header.token \in issued
        /\ Elapsed(r.header.token, r.at)) =>
         (r.status = 401 /\ ~r.validated /\ r.outcome = "none")
  /\ \A r \in AtStore :
       r.header.token \in issued => ~Elapsed(r.header.token, r.at)

\* a token was verified at the very instant its expiry elapsed, after a newer
\* token had been issued
C4_Witness ==
  /\ last.resp.op = "verify"
  /\ last.resp.token \in issued
  /\ last.resp.at = last.resp.token.claims.issuedAt + ExpiryMs
  /\ last.resp.status = 401
  /\ \E t \in issued : t.claims.issuedAt > last.resp.token.claims.issuedAt

\* the token's signature is the service's over the token's claims
SignedByService(t) ==
  t.kind = "jwt" /\ t.sig.key = AUTH_TOKEN_SECRET /\ t.sig.over = t.claims

\* C5, as stated: a token is accepted, by POST /auth/verify and by the gate,
\* if and only if it was signed with the signing secret and the current time
\* is before its issuance time plus the configured expiry.
C5_Original ==
  /\ (last.resp.op = "verify" /\ last.resp.token.kind = "jwt") =>
       (last.resp.status = 200 <=>
          (/\ SignedByService(last.resp.token)
           /\ last.resp.at < last.resp.token.claims.issuedAt + ExpiryMs))
  /\ \A r \in Answered \cup AtStore :
       (BearerScheme(r.header) /\ r.header.token.kind = "jwt") =>
         (r.gate = "pass" <=>
            (/\ SignedByService(r.header.token)
             /\ r.at < r.header.token.claims.issuedAt + ExpiryMs))

\* the acceptance test in the seconds the token carries
BeforeExpiry(t, at) == at \div 1000 < t.claims.issuedAt \div 1000 + TOKEN_EXPIRY

\* C5, amended: a token is accepted, by POST /auth/verify and by the gate, if
\* and only if it was signed with the signing secret and the current time in
\* whole seconds is before the whole second of its issuance plus the
\* configured expiry, which is up to a second before issuance plus expiry.
\* Nothing else counts: not the tokens issued since, not the uses made of it.
C5_AcceptedIff ==
  /\ (last.resp.op = "verify" /\ last.resp.token.kind = "jwt") =>
       (last.resp.status = 200 <=>
          (SignedByService(last.resp.token) /\ BeforeExpiry(last.resp.token, last.resp.at)))
  /\ \A r \in Answered \cup AtStore :
       (BearerScheme(r.header) /\ r.header.token.kind = "jwt") =>
         (r.gate = "pass" <=>
            (/\ \A i \in 8..Len(r.header.text) : r.header.text[i] = " "
             /\ SignedByService(r.header.token)
             /\ BeforeExpiry(r.header.token, r.at)))

\* the older of two issued tokens was accepted by verify after it had
\* authorised a create
C5_Witness ==
  /\ last.resp.op = "verify"
  /\ last.resp.status = 200
  /\ \E t \in issued : t.claims.issuedAt > last.resp.token.claims.issuedAt
  /\ \E r \in AtStore : r.header.token = last.resp.token

\* the answered create requests in the order of reqs, the last response after
AnsweredSeq ==
  SelectSeq(reqs, LAMBDA r : r.pc = "done")
    \o (IF last.resp.op = "create" THEN <<last.resp>> ELSE <<>>)

\* the request passed the gate and its payload passed the payload schema
AuthorizedValid(r) == r.gate = "pass" /\ r.validated /\ r.issues = {}

NormalizedSlug(r) == sanitizeSlug(SlugSource(r.body))

\* C6, as stated: of two authorized creates with valid payloads whose slugs
\* normalise to the same value, one is answered 201 and the other 409,
\* neither 500, and the store then holds exactly one post with that slug.
C6_Original ==
  \A i, j \in 1..Len(AnsweredSeq) :
    (/\ i < j
     /\ AuthorizedValid(AnsweredSeq[i])
     /\ AuthorizedValid(AnsweredSeq[j])
     /\ NormalizedSlug(AnsweredSeq[i]) = NormalizedSlug(AnsweredSeq[j])) =>
      /\ {AnsweredSeq[i].status, AnsweredSeq[j].status} = {201, 409}
      /\ Cardinality({k \in 1..Len(store) :
                        store[k].slug = NormalizedSlug(AnsweredSeq[i])}) = 1

\* lowercase [a-z0-9] segments joined by single hyphens, 3 to 160 characters
WellFormedSlug(s) ==
  /\ Len(s) >= 3 /\ Len(s) <= 160
  /\ \A i \in 1..Len(s) : s[i] \in LowerAlpha \cup Digits \cup {"-"}
  /\ s[1] # "-" /\ s[Len(s)] # "-"
  /\ \A i \in 1..(Len(s) - 1) : s[i] = "-" => s[i + 1] # "-"

\* C7: no two posts of the store have the same slug, and every stored slug is
\* 3 to 160 characters of lowercase [a-z0-9] segments joined by single hyphens.
C7_SlugInvariant ==
  \A i \in 1..Len(store) :
    /\ WellFormedSlug(store[i].slug)
    /\ \A j \in 1..Len(store) : store[i].slug = store[j].slug => i = j

\* the store holds a slug normalised from " A--B c! " and one of 160 characters
C7_Witness ==
  /\ \E i \in 1..Len(store) : store[i].slug = <<"a","-","b","-","c">>
  /\ \E i \in 1..Len(store) : Len(store[i].slug) = 160

\* C8: an authorized create whose content is shorter than 20 characters is
\* answered 400 with an issue on the content field, and nothing is inserted.
C8_ShortContent ==
  /\ \A r \in Answered :
       (/\ r.gate = "pass"
        /\ r.body.content # Undefined
        /\ Len(r.body.content) < 20) =>
         /\ r.status = 400
         /\ "content" \in r.issues
         /\ r.outcome = "none"
         /\ r.doc = NoDoc
  /\ \A r \in AtStore : Len(r.body.content) >= 20

\* with a post in the store, an authorized create with 19 characters of
\* content was answered
C8_Witness ==
  /\ Len(store) > 0
  /\ last.resp.op = "create"
  /\ last.resp.gate = "pass"
  /\ last.resp.body = BodyShortContent
  /\ last.resp.status = 400

\* C9, as stated: GET /blogs/:slug answers 404 exactly when no create has
\* ended with 201 for that slug, and after such a 201 it answers 200 with a
\* post of that slug.
C9_Original ==
  last.resp.op = "get" =>
    /\ last.resp.status = 404 <=> ~last.seen.answered
    /\ last.seen.answered => (last.resp.status = 200 /\ last.resp.post.slug = last.resp.slug)

\* C9, amended: with a healthy store GET /blogs/:slug answers 404 exactly when
\* the store has executed no create's insert of that slug, which comes before
\* that create's 201; otherwise, and so after every 201 for the slug, it
\* answers 200 with a post of that slug.
C9_GetBySlug ==
  last.resp.op = "get" =>
    /\ last.resp.status = 404 <=> ~last.seen.inserted
    /\ last.resp.status # 404 => (last.resp.status = 200 /\ last.resp.post.slug = last.resp.slug)
    /\ last.seen.answered => (last.resp.status = 200 /\ last.resp.post.slug = last.resp.slug)

\* a GET of a slug was answered 200 after the create of that slug was
\* answered 201, with a second create in flight
C9_Witness ==
  /\ last.resp.op = "get"
  /\ last.seen.answered
  /\ last.resp.status = 200
  /\ \E r \in AtStore : r.pc # "done"

\* the parameter as a number: optional sign, digits, optional fraction
Unsigned(l) ==
  LET t == trim(l) IN IF t # <<>> /\ Head(t) \in {"-", "+"} THEN Tail(t) ELSE t

IsInteger(l) ==
  l # Undefined /\ Unsigned(l) # <<>> /\ \A i \in 1..Len(Unsigned(l)) : Unsigned(l)[i] \in Digits

IsNumber(l) ==
  /\ l # Undefined
  /\ Unsigned(l) # <<>>
  /\ \A i \in 1..Len(Unsigned(l)) : Unsigned(l)[i] \in Digits \cup {"."}
  /\ Cardinality({i \in 1..Len(Unsigned(l)) : Unsigned(l)[i] = "."}) <= 1
  /\ Unsigned(l)[1] # "." /\ Unsigned(l)[Len(Unsigned(l))] # "."

IsNegative(l) == IsNumber(l) /\ Head(trim(l)) = "-"

IsZero(l) == IsNumber(l) /\ \A i \in 1..Len(Unsigned(l)) : Unsigned(l)[i] \in {"0", "."}

Min(a, b) == IF a < b THEN a ELSE b

LeadingDigits(l) ==
  LET t == IF l = Undefined THEN <<>> ELSE l
      f == IF \E i \in 1..Len(t) : t[i] \notin WhiteSpace
             THEN CHOOSE i \in 1..Len(t) :
                    t[i] \notin WhiteSpace /\ \A j \in 1..(i - 1) : t[j] \in WhiteSpace
             ELSE Len(t) + 1
      g == IF f <= Len(t) /\ t[f] \in {"-", "+"} THEN f + 1 ELSE f
      k == CHOOSE m \in 0..(Len(t) + 1 - g) :
             /\ \A i \in g..(g + m - 1) : t[i] \in Digits
             /\ (g + m <= Len(t) => t[g + m] \notin Digits)
  IN  [neg |-> f <= Len(t) /\ t[f] = "-", digits |-> SubSeq(t, g, g + k - 1)]

DocOf(slug) == store[CHOOSE i \in 1..Len(store) : store[i].slug = slug]

EffectiveDate(doc) == IF doc.publishedAt.set THEN doc.publishedAt ELSE doc.createdAt

\* C11, as stated: of any two posts GET /blogs returns, the one with the
\* later effective date (publishedAt if set, else createdAt) comes first, and
\* of two with the same effective date the one created later comes first.
C11_Original ==
  last.resp.op = "list" =>
    \A i, j \in 1..Len(last.resp.posts) :
      i < j =>
        LET a == DocOf(last.resp.posts[i].slug)
            b == DocOf(last.resp.posts[j].slug)
        IN  /\ ~DateLess(EffectiveDate(a), EffectiveDate(b))
            /\ EffectiveDate(a) = EffectiveDate(b) => ~DateLess(a.createdAt, b.createdAt)

\* every required value is present: the admin secret, a signing secret (its
\* own value or the admin secret) and the store URI
ConfigPresent ==
  /\ proc.env.admin \notin {Unset, ""}
  /\ (proc.env.token \notin {Unset, ""} \/ proc.env.admin \notin {Unset, ""})
  /\ proc.env.uri \notin {Unset, ""}

CanServe == ConfigPresent /\ proc.reachable

\* C12: the process listens, and answers requests, only when every required
\* value is present and the connection to the store has succeeded; when a
\* value is missing or the store is unreachable it logs the failure, exits
\* with a non-zero status and never listens.
C12_Startup ==
  /\ [](/\ proc.phase = "listening" => (ConfigPresent /\ proc.connected /\ proc.reachable)
        /\ last.resp.op # "none" => proc.phase = "listening"
        /\ ~CanServe => proc.phase \in {"config", "connecting", "exited"}
        /\ proc.phase = "exited" => (~CanServe /\ proc.code # 0 /\ errlog > 0))
  /\ [][proc.phase = "exited" => proc'.phase = "exited"]_vars
  /\ (~CanServe) ~> (proc.phase = "exited")

\* the process exited on a missing store URI, with the secrets present
C12_Witness ==
  /\ proc.phase = "exited"
  /\ proc.code = 1
  /\ proc.env.admin = "value"
  /\ proc.env.uri = Unset
  /\ errlog = 1

\* non-empty runs of [a-z0-9] with one hyphen between neighbours
SegmentsJoined(s) ==
  /\ s # <<>>
  /\ \A i \in 1..Len(s) : s[i] \in LowerAlpha \cup Digits \cup {"-"}
  /\ \A i \in 1..Len(s) : s[i] = "-" => (i > 1 /\ i < Len(s) /\ s[i + 1] # "-")

\* C13: the normalizer's result for the empty string is the empty string,
\* normalizing a result again leaves it as it is, and every result is empty
\* or made of [a-z0-9] segments joined by single hyphens.
C13_Idempotent ==
  last.resp.op = "normalized" =>
    /\ last.resp.twice = last.resp.once
    /\ last.resp.input = <<>> => last.resp.once = <<>>
    /\ last.resp.once = <<>> \/ SegmentsJoined(last.resp.once)

\* "Z -7" was normalized to "z-7"
C13_Witness ==
  /\ last.resp.op = "normalized"
  /\ last.resp.input = <<"Z", " ", "-", "7">>
  /\ last.resp.once = <<"z", "-", "7">>

\* C14, as stated: every stored post has a title of 3 to 160 characters,
\* content of at least 20 characters, a non-empty author of at most 120
\* characters and an excerpt of at most 320 characters, and its title, author
\* and excerpt are stored trimmed.
C14_Original ==
  \A i \in 1..Len(store) :
    /\ Len(store[i].title) >= 3 /\ Len(store[i].title) <= 160
    /\ Len(store[i].content) >= 20
    /\ Len(store[i].author) >= 1 /\ Len(store[i].author) <= 120
    /\ Len(store[i].excerpt) <= 320
    /\ store[i].title = trim(store[i].title)
    /\ store[i].author = trim(store[i].author)
    /\ store[i].excerpt = trim(store[i].excerpt)

\* C15, as stated: every authorized create ends with 400, 409, 500 or 201
\* with the created slug; it ends with 500 only when the store failed its
\* insert for a reason other than a duplicate key, so never on a store that
\* fails only on duplicate keys.
C15_Original ==
  \A r \in Answered :
    r.gate = "pass" =>
      /\ r.status \in {400, 409, 500, 201}
      /\ r.status = 201 => (r.slug = r.doc.slug /\ r.slug # <<>>)
      /\ r.status = 500 => (r.outcome = "fail" /\ ~healthy)

\* C16, as stated: a create rejected with 401 or 400 writes nothing to the
\* error log, and the error log holds only lines of requests that ended with
\* 500 on a failure of the store.
C16_Original ==
  /\ (last.resp.op = "create" /\ last.resp.status \in {400, 401}) => last.resp.logged = 0
  /\ errlog > 0 => \E r \in Answered : r.status = 500 /\ r.logged > 0

\* the payload passes validation once its date is left out
OtherwiseValid(body) == Issues(Payload([body EXCEPT !.date = Undefined])) = {}

\* an authorized, answered create that is otherwise valid and carries a date
DatedRequests ==
  {r \in Answered : r.gate = "pass" /\ OtherwiseValid(r.body) /\ r.body.date # Undefined}

\* the start of the UTC day of the instant the string parses to
StartOfDay(date) ==
  IF ParseDate(date).set
    THEN [set |-> TRUE, day |-> ParseDate(date).day, ms |-> 0]
    ELSE NoDate

\* C17, as stated: a supplied date string never causes a validation failure;
\* the post is stored with publishedAt at the start of the UTC day the string
\* parses to, or without publishedAt when the string does not parse.
C17_Original ==
  \A r \in DatedRequests :
    /\ r.status \in {201, 409}
    /\ r.status = 201 => DocOf(r.slug).publishedAt = StartOfDay(r.body.date)

\* C17, amended: a supplied date string of at most 40 characters never causes
\* a validation failure: the request is not answered 400, and a post it
\* creates is stored with publishedAt at the start of the UTC day the string
\* parses to, or without publishedAt when the string is empty or does not
\* parse.  A date string of more than 40 characters ends the request with 400
\* and an issue on the date field.
C17_DateHandling ==
  \A r \in DatedRequests :
    IF Len(r.body.date) > 40
      THEN r.status = 400 /\ "date" \in r.issues
      ELSE /\ r.status # 400 /\ r.issues = {}
           /\ r.status = 201 => DocOf(r.slug).publishedAt = StartOfDay(r.body.date)
           /\ (r.status = 201 /\ r.body = BodyDated) =>
                DocOf(r.slug).publishedAt = [set |-> TRUE, day |-> 19727, ms |-> 0]
           /\ (r.status = 201 /\ r.body \in {BodyBadDate, BodyEmptyDate}) =>
                ~DocOf(r.slug).publishedAt.set

\* a post dated 2024-01-05T23:30:00Z and a post with an unparsable date were
\* both created
C17_Witness ==
  /\ \E r \in Answered : r.body = BodyDated /\ r.status = 201
  /\ \E r \in Answered : r.body = BodyBadDate /\ r.status = 201

\* the authorized create requests, answered or at the store
Authorized == {r \in Answered \cup AtStore : r.gate = "pass"}

\* what C18 says of the slug candidate c of request r: it is the slug of the
\* document built, of the 201 response and of the stored post, and the slug
\* the payload is validated with
UsesCandidate(r, c) ==
  /\ "slug" \in r.issues <=> ~WellFormedSlug(c)
  /\ r.doc # NoDoc => r.doc.slug = c
  /\ r.status = 201 => (r.slug = c /\ \E i \in 1..Len(store) : store[i].slug = c)

\* C18, as stated: the slug candidate is normalize(payload.slug) whenever the
\* payload has a slug field, and normalize(payload.title) only when it has
\* none; a 201 response returns, and the post stores, exactly that candidate.
C18_Original ==
  \A r \in Authorized :
    UsesCandidate(r, IF r.body.slug # Undefined
                       THEN sanitizeSlug(IF r.body.slug = Null THEN <<"n","u","l","l">>
                                         ELSE r.body.slug)
                       ELSE sanitizeSlug(r.body.title))

\* C18, amended: the slug candidate is normalize(payload.slug) whenever the
\* payload has a slug field whose value is not null, the empty string
\* included and whatever the title is, and normalize(payload.title) when the
\* slug field is absent or null; a 201 response returns, and the post stores,
\* exactly that candidate.
C18_SlugPrecedence ==
  \A r \in Authorized :
    UsesCandidate(r, IF r.body.slug # Undefined /\ r.body.slug # Null
                       THEN sanitizeSlug(r.body.slug)
                       ELSE sanitizeSlug(r.body.title))

\* a payload with a slug and another title was stored under its slug, and a
\* payload with an empty slug and a usable title was rejected
C18_Witness ==
  /\ \E r \in Answered : r.body = BodyExplicitSlug /\ r.status = 201
                          /\ r.slug = <<"a","-","b","-","c">>
  /\ last.resp.op = "create" /\ last.resp.body = BodyEmptySlug /\ last.resp.status = 400

\* the requests whose insert the store executed
InsertedBy == {i \in 1..Len(reqs) : reqs[i].outcome = "ok"}

\* C19: the store changes only by one post added at its end, the document of
\* a create that then ends with 201, every post already stored staying as it
\* is; a request that is answered at once (login, verify, list, get, health,
\* unmatched, a create ending with 400, 401 or 500) and the response of a
\* create leave the store as it is; the store holds one post for each create
\* that ends with 201 and none for a create that ends with 409 or 500.
C19_StoreOnlyGrows ==
  /\ [](/\ Len(store) = Cardinality(InsertedBy)
        /\ \A i \in 1..Len(reqs) :
             reqs[i].pc = "done" => (reqs[i].status = 201 <=> i \in InsertedBy))
  /\ [][/\ store' # store =>
             /\ Len(store') = Len(store) + 1
             /\ SubSeq(store', 1, Len(store)) = store
             /\ \E i \in 1..Len(reqs) :
                  /\ reqs[i].pc = "saving"
                  /\ reqs'[i].outcome = "ok"
                  /\ reqs'[i].doc = store'[Len(store')]
                  /\ EndCreate(reqs'[i]).status = 201
        /\ last' # last => store' = store
        /\ (\E i \in 1..Len(reqs) : reqs[i].pc # "saving" /\ reqs'[i] # reqs[i]) =>
             store' = store]_vars

\* with one post stored, creates have ended with 201, with 409 and with 500,
\* and the list was read
C19_Witness ==
  /\ Len(store) = 1
  /\ \E i \in 1..Len(reqs) : reqs[i].pc = "done" /\ reqs[i].status = 201
  /\ \E i \in 1..Len(reqs) : reqs[i].pc = "done" /\ reqs[i].status \in {409, 500}
  /\ last.resp.op = "list"

====
